---------------------------- MODULE Spec2Model ----------------------------
(* Model of the Streamlit dashboard script app.py (and its restyled copy   *)
(* "app v2.py"): load_data, the sidebar filter block, the empty-filter      *)
(* guard, and the KPI / hourly / weekday / base sections, run top to bottom *)
(* once per render pass.                                                    *)
(*                                                                          *)
(* Calendar dates are days of January 2015 (1 = Thursday 2015-01-01).       *)
(* A text cell is a sequence of tokens separated by single spaces; a token  *)
(* is a date ("2015-01-05"), a time of day ("08:00:00") or other text.      *)
EXTENDS Integers, Sequences, FiniteSets, TLC

VARIABLES
    file,            \* content of DATA_PATH on disk
    cache,           \* st.cache_data store of load_data: <<>> or <<result>>
    pc,              \* position of the running render pass
    df,              \* module-level df returned by load_data
    DATE_COL,        \* module-level DATE_COL returned by load_data
    date_range,      \* value delivered by st.date_input
    hour_range,      \* value delivered by st.slider
    filtered,        \* the filtered view (sequence of rows)
    kpi,             \* KPI summary of the pass
    hour_counts,     \* hourly aggregate
    hour_insight,    \* peak / off-peak / commute shares
    weekday_counts,  \* weekday aggregate after reindex(weekday_order)
    weekday_insight, \* peak day, off day, weekday and weekend averages
    base_counts,     \* base aggregate
    base_insight,    \* top base and its share
    executed,        \* sections of the script run so far in this pass
    msgs             \* st.error / st.warning / st.info calls of this pass

vars == <<file, cache, pc, df, DATE_COL, date_range, hour_range, filtered,
          kpi, hour_counts, hour_insight, weekday_counts, weekday_insight,
          base_counts, base_insight, executed, msgs>>

-----------------------------------------------------------------------------
(* Bounds of the model.                                                     *)

\* longest generated data table (rows)
MaxRows == 2

-----------------------------------------------------------------------------
(* Cells and tokens.                                                        *)

DateTok(d) == [t |-> "date", n |-> d]
TimeTok(h) == [t |-> "time", n |-> h]
TextTok(k) == [t |-> "text", n |-> k]

Str(toks)       == [kind |-> "str", v |-> toks]
NaN             == [kind |-> "nan", v |-> <<>>]
NaT             == [kind |-> "nat", v |-> <<>>]
Timestamp(d, h) == [kind |-> "ts",  v |-> <<d, h>>]

\* the text "nan" that astype(str) writes for a missing cell
NanText == TextTok(0)

\* Series.astype(str) on one cell
astype_str(c) == IF c.kind = "str" THEN c ELSE Str(<<NanText>>)

\* str + " " + str on one pair of cells
str_concat(a, b) == Str(a.v \o b.v)

DaysInMonth == 1..31
HoursOfDay  == 0..23

\* pd.to_datetime(..., errors="coerce") on one cell: a datetime stays, a
\* "date time" or "date" text parses (time defaults to midnight), anything
\* else becomes NaT.
to_datetime(c) ==
    IF c.kind = "ts" THEN c
    ELSE IF c.kind # "str" THEN NaT
    ELSE IF Len(c.v) = 2 /\ c.v[1].t = "date" /\ c.v[2].t = "time"
              /\ c.v[1].n \in DaysInMonth /\ c.v[2].n \in HoursOfDay
         THEN Timestamp(c.v[1].n, c.v[2].n)
    ELSE IF Len(c.v) = 1 /\ c.v[1].t = "date" /\ c.v[1].n \in DaysInMonth
         THEN Timestamp(c.v[1].n, 0)
    ELSE NaT

\* Series.isna on one cell
isna(c) == c.kind \in {"nan", "nat"}

weekday_order ==
    <<"Monday", "Tuesday", "Wednesday", "Thursday", "Friday", "Saturday", "Sunday">>

\* Series.dt.date / dt.hour / dt.day_name on one timestamp
dt_date(ts) == ts.v[1]
dt_hour(ts) == ts.v[2]
dt_day_name(ts) == weekday_order[((ts.v[1] + 2) % 7) + 1]

-----------------------------------------------------------------------------
(* Data frames: a set of column names and a sequence of rows; a row maps    *)
(* each column name to its cell.                                            *)

DataFrame(columns, rows) == [columns |-> columns, rows |-> rows]
NoFrame == DataFrame({}, <<>>)

\* row r with column c set to value v (added if absent)
with_column(r, c, v) ==
    [k \in (DOMAIN r) \cup {c} |-> IF k = c THEN v ELSE r[k]]

\* row r with column old renamed to new
rename_column(r, old, new) ==
    [k \in ((DOMAIN r) \ {old}) \cup {new} |-> IF k = new THEN r[old] ELSE r[k]]

RECURSIVE SelectRows(_, _, _)
\* rows[i] for the i in keep, in the order of rows (boolean-mask indexing)
SelectRows(rows, keep, i) ==
    IF i > Len(rows) THEN <<>>
    ELSE (IF i \in keep THEN <<rows[i]>> ELSE <<>>) \o SelectRows(rows, keep, i + 1)

MapRows(rows, F(_)) == [i \in DOMAIN rows |-> F(rows[i])]


-----------------------------------------------------------------------------
(* The data file and load_data.                                             *)

DATETIME_CANDIDATES == <<"Date/Time", "DateTime", "Pickup_date", "Pickup_Date">>

\* Python's None for date_col
None == "None"

\* a file on disk: kind "missing" (DATA_PATH does not exist), "zero_bytes"
\* (st_size = 0), "no_columns" (bytes but no header line: pd.read_csv raises
\* EmptyDataError) or "table" (a header line and zero or more rows)
File(kind, columns, rows) == [kind |-> kind, columns |-> columns, rows |-> rows]
MissingFile   == File("missing", {}, <<>>)
ZeroByteFile  == File("zero_bytes", {}, <<>>)
NoColumnsFile == File("no_columns", {}, <<>>)

path_exists(f) == f.kind # "missing"
st_size_zero(f) == f.kind = "zero_bytes"
read_csv_raises(f) == f.kind = "no_columns"
read_csv(f) == DataFrame(f.columns, f.rows)

\* the candidate loop without its break: the last candidate present wins
last_candidate(columns, i) ==
    IF \E k \in i..Len(DATETIME_CANDIDATES) : DATETIME_CANDIDATES[k] \in columns
    THEN DATETIME_CANDIDATES[
             CHOOSE k \in i..Len(DATETIME_CANDIDATES) :
                 /\ DATETIME_CANDIDATES[k] \in columns
                 /\ \A m \in (k + 1)..Len(DATETIME_CANDIDATES) :
                        DATETIME_CANDIDATES[m] \notin columns]
    ELSE None

RECURSIVE first_candidate(_, _)
\* for c in DATETIME_CANDIDATES: if c in df.columns: date_col = c; break
first_candidate(columns, i) ==
    IF i > Len(DATETIME_CANDIDATES) THEN None
    ELSE IF DATETIME_CANDIDATES[i] \in columns THEN DATETIME_CANDIDATES[i]
    ELSE first_candidate(columns, i + 1)

\* {"DATE", "TIME"}.issubset(df.columns)
has_date_time(columns) == {"DATE", "TIME"} \subseteq columns

\* the fallback branch: df["DateTime"] = to_datetime(DATE + " " + TIME)
build_from_date_time(raw) ==
    DataFrame(raw.columns \cup {"DateTime"},
              MapRows(raw.rows,
                      LAMBDA r : with_column(r, "DateTime",
                          to_datetime(str_concat(astype_str(r["DATE"]),
                                                 astype_str(r["TIME"]))))))

\* df[date_col] = pd.to_datetime(df[date_col], errors="coerce")
parse_date_col(d, date_col) ==
    DataFrame(d.columns,
              MapRows(d.rows, LAMBDA r : with_column(r, date_col, to_datetime(r[date_col]))))

\* dropna() without subset=: a row with any missing cell is dropped
dropna_any(d, col) ==
    DataFrame(d.columns,
              SelectRows(d.rows,
                         {i \in DOMAIN d.rows :
                             \A c \in DOMAIN d.rows[i] : ~isna(d.rows[i][c])},
                         1))

\* df = df.dropna(subset=[date_col])
dropna(d, col) ==
    DataFrame(d.columns,
              SelectRows(d.rows, {i \in DOMAIN d.rows : ~isna(d.rows[i][col])}, 1))

\* df["date"], df["hour"], df["weekday"] from df[date_col]
add_time_features(d, date_col) ==
    DataFrame(d.columns \cup {"date", "hour", "weekday"},
              MapRows(d.rows,
                      LAMBDA r : with_column(with_column(with_column(r,
                                     "date", dt_date(r[date_col])),
                                     "hour", dt_hour(r[date_col])),
                                     "weekday", dt_day_name(r[date_col]))))

\* if "Base" not in df.columns and "Base Number" in df.columns: rename
normalise_base(d) ==
    IF "Base" \notin d.columns /\ "Base Number" \in d.columns
    THEN DataFrame((d.columns \ {"Base Number"}) \cup {"Base"},
                   MapRows(d.rows, LAMBDA r : rename_column(r, "Base Number", "Base")))
    ELSE d

\* outcomes of one call of the body of load_data
Returned(d, date_col) ==
    [status |-> "return", df |-> d, date_col |-> date_col,
     error |-> "", columns |-> {}]
Stopped(error, columns) ==
    [status |-> "stop", df |-> NoFrame, date_col |-> None,
     error |-> error, columns |-> columns]
Raised(error) ==
    [status |-> "raise", df |-> NoFrame, date_col |-> None,
     error |-> error, columns |-> {}]

\* step 2 of load_data: the column that will hold the timestamps
resolve_date_col(columns) ==
    IF first_candidate(columns, 1) # None THEN first_candidate(columns, 1)
    ELSE IF has_date_time(columns) THEN "DateTime"
    ELSE None

\* the body of load_data, run on the file as it is on disk
load_data(f) ==
    IF ~path_exists(f) THEN Stopped("file_not_found", {})
    ELSE IF st_size_zero(f) THEN Stopped("file_empty", {})
    ELSE IF read_csv_raises(f) THEN Raised("EmptyDataError")
    ELSE LET raw      == read_csv(f)
             date_col == resolve_date_col(raw.columns)
             built    == IF first_candidate(raw.columns, 1) = None
                            /\ has_date_time(raw.columns)
                         THEN build_from_date_time(raw)
                         ELSE raw
         IN  IF date_col = None
             THEN Stopped("no_datetime_column", raw.columns)
             ELSE Returned(
                    normalise_base(
                      add_time_features(
                        dropna(parse_date_col(built, date_col), date_col),
                        date_col)),
                    date_col)

-----------------------------------------------------------------------------
(* The data files the model starts from.                                    *)

SeqsUpTo(S, n) == UNION {[1..k -> S] : k \in 0..n}

\* tables over every combination of the columns load_data looks at, with
\* no row or one row; each column holds its own value, so the column a
\* timestamp came from can be read off the result
SchemaColumns ==
    {"Date/Time", "DateTime", "Pickup_date", "Pickup_Date",
     "DATE", "TIME", "Base", "Base Number"}

SchemaCell(c) ==
    CASE c = "Date/Time"   -> Str(<<DateTok(1), TimeTok(8)>>)
      [] c = "DateTime"    -> Str(<<DateTok(2), TimeTok(3)>>)
      [] c = "Pickup_date" -> Str(<<DateTok(3), TimeTok(17)>>)
      [] c = "Pickup_Date" -> Str(<<DateTok(4)>>)
      [] c = "DATE"        -> Str(<<DateTok(5)>>)
      [] c = "TIME"        -> Str(<<TimeTok(23)>>)
      [] c = "Base"        -> Str(<<TextTok(1)>>)
      [] OTHER             -> Str(<<TextTok(2)>>)

SchemaRows(cols) ==
    {[c \in cols |-> IF c = "DATE" THEN dc ELSE SchemaCell(c)] :
        dc \in {SchemaCell("DATE"), NaN}}

SchemaFiles ==
    UNION {{File("table", cols, rows) :
               rows \in {<<>>} \cup {<<r>> : r \in SchemaRows(cols)}} :
           cols \in (SUBSET SchemaColumns) \ {{}}}

\* tables with a timestamp and a base column and up to MaxRows rows
DataDays  == {1, 3}
DataHours == {8, 17}
BadText   == Str(<<TextTok(9)>>)
DataBases == {Str(<<TextTok(1)>>), Str(<<TextTok(2)>>), NaN}

DataRows ==
    {[c \in {"Date/Time", "Base"} |-> IF c = "Base" THEN b ELSE t] :
        t \in {Str(<<DateTok(d), TimeTok(h)>>) : d \in DataDays, h \in DataHours}
              \cup {BadText},
        b \in DataBases}

DataFiles ==
    {File("table", {"Date/Time", "Base"}, rows) : rows \in SeqsUpTo(DataRows, MaxRows)}

\* the worked examples: trips at hours 8,8,8,17,17,3 of one day; one trip on
\* each of 2015-01-01 .. 2015-01-07; bases A,A,A,B
TripAt(d, h) == [c \in {"Date/Time"} |-> Str(<<DateTok(d), TimeTok(h)>>)]
TripOf(d, h, b) ==
    [c \in {"Date/Time", "Base"} |->
        IF c = "Base" THEN Str(<<TextTok(b)>>) ELSE Str(<<DateTok(d), TimeTok(h)>>)]

HoursExample ==
    File("table", {"Date/Time"},
         <<TripAt(1, 8), TripAt(1, 8), TripAt(1, 8),
           TripAt(1, 17), TripAt(1, 17), TripAt(1, 3)>>)
WeekExample ==
    File("table", {"Date/Time"}, [d \in 1..7 |-> TripAt(d, 8)])
BasesExample ==
    File("table", {"Date/Time", "Base"},
         <<TripOf(1, 8, 1), TripOf(1, 8, 1), TripOf(1, 8, 1), TripOf(1, 8, 2)>>)

ExampleFiles == {HoursExample, WeekExample, BasesExample}

Files ==
    {MissingFile, ZeroByteFile, NoColumnsFile}
        \cup SchemaFiles \cup DataFiles \cup ExampleFiles

\* the contents the file takes when it is rewritten while the app runs
NoTimestampFile ==
    File("table", {"Base"}, <<[c \in {"Base"} |-> Str(<<TextTok(1)>>)]>>)
FirstExport  == File("table", {"Date/Time", "Base"}, <<TripOf(1, 8, 1), TripOf(3, 17, 2)>>)
SecondExport == File("table", {"Date/Time", "Base"}, <<TripOf(3, 8, 2)>>)

RewrittenFiles ==
    {MissingFile, ZeroByteFile, NoColumnsFile, NoTimestampFile,
     FirstExport, SecondExport}

-----------------------------------------------------------------------------
(* The sidebar filter block.                                                *)

\* Series.min / Series.max of a non-empty column of dates
SetMin(S) == CHOOSE x \in S : \A y \in S : x <= y
SetMax(S) == CHOOSE x \in S : \A y \in S : y <= x

\* valid_dates = df[DATE_COL].dt.date
valid_dates(d, date_col) == {dt_date(d.rows[i][date_col]) : i \in DOMAIN d.rows}

\* what st.date_input can deliver for value=(min_date, max_date): a pair
\* (start, end) inside [min_date, max_date], or a 1-tuple while the user
\* has picked only the first date of the range
DateInputValues(min_date, max_date) ==
    {<<s, e>> \in (min_date..max_date) \X (min_date..max_date) : s <= e}
        \cup {<<s>> : s \in min_date..max_date}

\* the positions the hour slider is moved to
HourMarks == {0, 8, 9, 23}

\* what st.slider("Hour of day", 0, 23, (0, 23)) can deliver
SliderValues == {<<lo, hi>> \in HourMarks \X HourMarks : lo <= hi}

\* isinstance(date_range, tuple) and len(date_range) == 2
is_pair(dr) == Len(dr) = 2

\* between with the right end left out
between_right_open(x, left, right) == left <= x /\ x < right

\* Series.between(left, right): inclusive on both ends
between(x, left, right) == left <= x /\ x <= right

\* (filtered["hour"] >= h_min) & (filtered["hour"] <= h_max)
hour_mask(h, h_min, h_max) == h >= h_min /\ h <= h_max

\* filtered = df.loc[date_mask].copy(); filtered = filtered[hour mask]
filter_view(d, date_col, start_date, end_date, h_min, h_max) ==
    LET by_date == SelectRows(d.rows,
                       {i \in DOMAIN d.rows :
                           between(dt_date(d.rows[i][date_col]), start_date, end_date)},
                       1)
    IN  SelectRows(by_date,
                   {i \in DOMAIN by_date : hour_mask(by_date[i]["hour"], h_min, h_max)},
                   1)

\* the guard testing the wrong frame: never true
is_empty_never(rows) == Len(rows) < 0

\* filtered.empty
is_empty(rows) == Len(rows) = 0

-----------------------------------------------------------------------------
(* KPI summary and the aggregates.                                          *)

RECURSIVE AscendingSeq(_)
\* the elements of a finite set of numbers in ascending order
AscendingSeq(S) ==
    IF S = {} THEN <<>> ELSE <<SetMin(S)>> \o AscendingSeq(S \ {SetMin(S)})

\* counting distinct rows instead of rows
group_size_distinct(rows, col, key) ==
    Cardinality({rows[i] : i \in {j \in DOMAIN rows : rows[j][col] = key}})

\* groupby(col).size() for one key
group_size(rows, col, key) == Cardinality({i \in DOMAIN rows : rows[i][col] = key})

RECURSIVE sum_trips(_, _)
\* counts["trips"].sum() over the positions from i on
sum_trips(counts, i) ==
    IF i > Len(counts) THEN 0 ELSE counts[i].trips + sum_trips(counts, i + 1)

\* Series.idxmax: the first position holding the largest value
idxmax(counts) ==
    CHOOSE i \in DOMAIN counts :
        /\ \A j \in DOMAIN counts : counts[j].trips <= counts[i].trips
        /\ \A j \in 1..(i - 1) : counts[j].trips < counts[i].trips

\* idxmin returning the last position of the smallest value
idxmin_last(counts) ==
    CHOOSE i \in DOMAIN counts :
        /\ \A j \in DOMAIN counts : counts[j].trips >= counts[i].trips
        /\ \A j \in (i + 1)..Len(counts) : counts[j].trips > counts[i].trips

\* Series.idxmin: the first position holding the smallest value
idxmin(counts) ==
    CHOOSE i \in DOMAIN counts :
        /\ \A j \in DOMAIN counts : counts[j].trips >= counts[i].trips
        /\ \A j \in 1..(i - 1) : counts[j].trips > counts[i].trips

\* Series.nunique(): distinct non-missing values
nunique_base(rows) ==
    Cardinality({rows[i]["Base"] : i \in {j \in DOMAIN rows : ~isna(rows[j]["Base"])}})

\* the three KPI values ("app v2.py" shows a base count of 0 as "N/A" too)
kpi_summary(columns, rows) ==
    [total_trips |-> Len(rows),
     unique_days |-> Cardinality({rows[i]["date"] : i \in DOMAIN rows}),
     bases       |-> IF "Base" \in columns THEN nunique_base(rows) ELSE 0,
     bases_na    |-> "Base" \notin columns]
NoKpi == [total_trips |-> 0, unique_days |-> 0, bases |-> 0, bases_na |-> TRUE]

\* the group keys of groupby("hour"): the hours that occur in the view
hour_keys(rows) == {rows[i]["hour"] : i \in DOMAIN rows}

\* the hourly aggregate filled with zero for the hours 0..23 that have no row
groupby_hour_zero_filled(rows) ==
    [k \in 1..24 |-> [hour |-> k - 1, trips |-> group_size(rows, "hour", k - 1)]]

\* filtered.groupby("hour").size().reset_index(name="trips").sort_values("hour")
groupby_hour(rows) ==
    LET keys == AscendingSeq(hour_keys(rows))
    IN  [k \in DOMAIN keys |->
            [hour |-> keys[k], trips |-> group_size(rows, "hour", keys[k])]]

\* hour_counts.loc[hour_counts["hour"].between(lo, hi), "trips"].sum()
window_trips(counts, lo, hi) ==
    sum_trips(SelectRows(counts,
                         {i \in DOMAIN counts : between(counts[i].hour, lo, hi)}, 1), 1)

\* peak_hour_row, off_hour_row, morning_share, evening_share; a share is
\* kept as its numerator over total_trips
hourly_insight(counts) ==
    [peak_hour     |-> counts[idxmax(counts)].hour,
     peak_trips    |-> counts[idxmax(counts)].trips,
     off_hour      |-> counts[idxmin(counts)].hour,
     off_trips     |-> counts[idxmin(counts)].trips,
     morning_trips |-> window_trips(counts, 7, 9),
     evening_trips |-> window_trips(counts, 16, 19),
     total_trips   |-> sum_trips(counts, 1)]
NoHourInsight ==
    [peak_hour |-> 0, peak_trips |-> 0, off_hour |-> 0, off_trips |-> 0,
     morning_trips |-> 0, evening_trips |-> 0, total_trips |-> 0]

\* filtered.groupby("weekday").size().reindex(weekday_order)
\*     .reset_index(name="trips"): a day with no row gets NaN (isna)
groupby_weekday(rows) ==
    [k \in DOMAIN weekday_order |->
        [weekday |-> weekday_order[k],
         trips   |-> group_size(rows, "weekday", weekday_order[k]),
         isna    |-> group_size(rows, "weekday", weekday_order[k]) = 0]]

\* no dropna: the reindexed days without a row stay in, counted as 0
dropna_trips_keep_all(counts) == counts

\* weekday_counts.dropna(subset=["trips"])
dropna_trips(counts) ==
    SelectRows(counts, {i \in DOMAIN counts : ~counts[i].isna}, 1)

\* Series.mean(): kept as sum over n; n = 0 is the NaN of an empty mean
mean_trips(counts) == [sum |-> sum_trips(counts, 1), n |-> Len(counts)]

Weekdays == {"Monday", "Tuesday", "Wednesday", "Thursday", "Friday"}
Weekend  == {"Saturday", "Sunday"}

\* valid_weekdays.loc[valid_weekdays["weekday"].isin(days), "trips"]
isin_days(valid, days) ==
    SelectRows(valid, {i \in DOMAIN valid : valid[i].weekday \in days}, 1)

\* peak_day_row, off_day_row, weekday_avg, weekend_avg
weekday_summary(counts) ==
    LET valid_weekdays == dropna_trips(counts)
    IN  [peak_day       |-> valid_weekdays[idxmax(valid_weekdays)].weekday,
         peak_day_trips |-> valid_weekdays[idxmax(valid_weekdays)].trips,
         off_day        |-> valid_weekdays[idxmin(valid_weekdays)].weekday,
         off_day_trips  |-> valid_weekdays[idxmin(valid_weekdays)].trips,
         weekday_avg    |-> mean_trips(isin_days(valid_weekdays, Weekdays)),
         weekend_avg    |-> mean_trips(isin_days(valid_weekdays, Weekend))]
NoWeekdayInsight ==
    [peak_day |-> "", peak_day_trips |-> 0, off_day |-> "", off_day_trips |-> 0,
     weekday_avg |-> [sum |-> 0, n |-> 0], weekend_avg |-> [sum |-> 0, n |-> 0]]

\* the group keys of groupby("Base"): missing values form no group
base_keys(rows) ==
    {rows[i]["Base"] : i \in {j \in DOMAIN rows : ~isna(rows[j]["Base"])}}

\* sort_values("trips", ascending=False): descending counts
is_descending(counts) ==
    \A i \in 1..(Len(counts) - 1) : counts[i].trips >= counts[i + 1].trips

\* filtered.groupby("Base").size().reset_index(name="trips")
\*     .sort_values("trips", ascending=False): the default sort is not
\* stable, so every descending order of the groups is a possible outcome
groupby_base(rows) ==
    LET keys == base_keys(rows)
        n    == Cardinality(keys)
        orders == {p \in [1..n -> keys] : \A i, j \in 1..n : i # j => p[i] # p[j]}
    IN  {c \in {[k \in 1..n |-> [Base |-> p[k],
                                 trips |-> group_size(rows, "Base", p[k])]] :
                   p \in orders} :
            is_descending(c)}

\* top_base_row = base_counts.iloc[0]; share_top_base = trips / total
base_summary(counts) ==
    [top_base       |-> counts[1].Base,
     top_base_trips |-> counts[1].trips,
     total_trips    |-> sum_trips(counts, 1)]
NoBaseInsight == [top_base |-> NaN, top_base_trips |-> 0, total_trips |-> 0]

-----------------------------------------------------------------------------
(* One render pass: the script runs top to bottom; st.stop() and an         *)
(* uncaught exception both end the pass where they happen.                  *)

Message(level, text, columns) == [level |-> level, text |-> text, columns |-> columns]

\* the sections after the empty-filter guard
Sections == {"kpi", "hourly", "weekday", "base"}

\* a pass has ended: by running off the end of the script, by st.stop(), or
\* by an uncaught exception
Ended == {"done", "stopped", "exception"}

\* @st.cache_data on a function without parameters: one entry, looked up by
\* the function alone
cache_lookup(store, f) == IF store # <<>> THEN store[1] ELSE load_data(f)

\* the entry is written when the body returns; st.stop() and exceptions
\* leave the store as it was
cache_store(store, res) ==
    IF store = <<>> /\ res.status = "return" THEN <<res>> ELSE store

PassVarsReset ==
    /\ df' = NoFrame
    /\ DATE_COL' = None
    /\ date_range' = <<>>
    /\ hour_range' = <<>>
    /\ filtered' = <<>>
    /\ kpi' = NoKpi
    /\ hour_counts' = <<>>
    /\ hour_insight' = NoHourInsight
    /\ weekday_counts' = <<>>
    /\ weekday_insight' = NoWeekdayInsight
    /\ base_counts' = <<>>
    /\ base_insight' = NoBaseInsight
    /\ executed' = {}
    /\ msgs' = <<>>

InitPass ==
    /\ cache = <<>>
    /\ pc = "load_data"
    /\ df = NoFrame
    /\ DATE_COL = None
    /\ date_range = <<>>
    /\ hour_range = <<>>
    /\ filtered = <<>>
    /\ kpi = NoKpi
    /\ hour_counts = <<>>
    /\ hour_insight = NoHourInsight
    /\ weekday_counts = <<>>
    /\ weekday_insight = NoWeekdayInsight
    /\ base_counts = <<>>
    /\ base_insight = NoBaseInsight
    /\ executed = {}
    /\ msgs = <<>>

Init == file \in Files /\ InitPass

\* df, DATE_COL = load_data()
LoadData ==
    /\ pc = "load_data"
    /\ LET res == cache_lookup(cache, file)
       IN  /\ cache' = cache_store(cache, res)
           /\ df' = res.df
           /\ DATE_COL' = res.date_col
           /\ pc' = CASE res.status = "return" -> "sidebar"
                      [] res.status = "stop"   -> "stopped"
                      [] OTHER                 -> "exception"
           /\ msgs' = CASE res.status = "return" -> msgs
                        [] res.status = "stop" ->
                             Append(msgs, Message("error", res.error, res.columns))
                        [] OTHER ->
                             Append(msgs, Message("exception", res.error, {}))
    /\ executed' = executed \cup {"load_data"}
    /\ UNCHANGED <<file, date_range, hour_range, filtered, kpi, hour_counts,
                   hour_insight, weekday_counts, weekday_insight, base_counts,
                   base_insight>>

\* the "with st.sidebar:" block: date_input, slider, the two masks
Sidebar ==
    /\ pc = "sidebar"
    /\ executed' = executed \cup {"sidebar"}
    /\ IF df.rows = <<>>
       THEN \* min() of no dates is NaN, which st.date_input rejects
            /\ pc' = "exception"
            /\ msgs' = Append(msgs, Message("exception", "StreamlitAPIException", {}))
            /\ UNCHANGED <<date_range, hour_range, filtered>>
       ELSE \E dr \in DateInputValues(SetMin(valid_dates(df, DATE_COL)),
                                      SetMax(valid_dates(df, DATE_COL))) :
            /\ date_range' = dr
            /\ IF is_pair(dr)
               THEN \E hr \in SliderValues :
                    /\ hour_range' = hr
                    /\ filtered' = filter_view(df, DATE_COL, dr[1], dr[2], hr[1], hr[2])
                    /\ pc' = "guard"
                    /\ msgs' = msgs
               ELSE \* start_date = end_date = the tuple itself: comparing a
                    \* date with a tuple raises TypeError
                    /\ pc' = "exception"
                    /\ msgs' = Append(msgs, Message("exception", "TypeError", {}))
                    /\ UNCHANGED <<hour_range, filtered>>
    /\ UNCHANGED <<file, cache, df, DATE_COL, kpi, hour_counts, hour_insight,
                   weekday_counts, weekday_insight, base_counts, base_insight>>

\* if filtered.empty: st.warning(...); st.stop()
EmptyGuard ==
    /\ pc = "guard"
    /\ executed' = executed \cup {"guard"}
    /\ IF is_empty(filtered)
       THEN /\ msgs' = Append(msgs, Message("warning", "no_trips_match", {}))
            /\ pc' = "stopped"
       ELSE /\ msgs' = msgs
            /\ pc' = "kpi"
    /\ UNCHANGED <<file, cache, df, DATE_COL, date_range, hour_range, filtered, kpi,
                   hour_counts, hour_insight, weekday_counts, weekday_insight,
                   base_counts, base_insight>>

\* KPI SUMMARY
Kpi ==
    /\ pc = "kpi"
    /\ executed' = executed \cup {"kpi"}
    /\ kpi' = kpi_summary(df.columns, filtered)
    /\ pc' = "hourly"
    /\ UNCHANGED <<file, cache, df, DATE_COL, date_range, hour_range, filtered,
                   hour_counts, hour_insight, weekday_counts, weekday_insight,
                   base_counts, base_insight, msgs>>

\* 1. TRIPS BY HOUR OF DAY
Hourly ==
    /\ pc = "hourly"
    /\ executed' = executed \cup {"hourly"}
    /\ hour_counts' = groupby_hour(filtered)
    /\ hour_insight' = hourly_insight(hour_counts')
    /\ pc' = "weekday"
    /\ UNCHANGED <<file, cache, df, DATE_COL, date_range, hour_range, filtered, kpi,
                   weekday_counts, weekday_insight, base_counts, base_insight, msgs>>

\* 2. TRIPS BY DAY OF WEEK
Weekday ==
    /\ pc = "weekday"
    /\ executed' = executed \cup {"weekday"}
    /\ weekday_counts' = groupby_weekday(filtered)
    /\ weekday_insight' = weekday_summary(weekday_counts')
    /\ pc' = "base"
    /\ UNCHANGED <<file, cache, df, DATE_COL, date_range, hour_range, filtered, kpi,
                   hour_counts, hour_insight, base_counts, base_insight, msgs>>

\* 3. BASE ACTIVITY, then the footer (without a Base column "app v2.py"
\* shows an st.info note instead of nothing)
Base ==
    /\ pc = "base"
    /\ executed' = executed \cup {"base"}
    /\ IF "Base" \in df.columns
       THEN \E counts \in groupby_base(filtered) :
            /\ base_counts' = counts
            /\ IF counts = <<>>
               THEN \* base_counts.iloc[0] on an empty frame raises IndexError
                    /\ pc' = "exception"
                    /\ msgs' = Append(msgs, Message("exception", "IndexError", {}))
                    /\ base_insight' = base_insight
               ELSE /\ base_insight' = base_summary(counts)
                    /\ pc' = "done"
                    /\ msgs' = msgs
       ELSE /\ pc' = "done"
            /\ UNCHANGED <<base_counts, base_insight, msgs>>
    /\ UNCHANGED <<file, cache, df, DATE_COL, date_range, hour_range, filtered, kpi,
                   hour_counts, hour_insight, weekday_counts, weekday_insight>>

\* a widget change or a browser refresh starts the next pass
Rerun ==
    /\ pc \in Ended
    /\ pc' = "load_data"
    /\ PassVarsReset
    /\ UNCHANGED <<file, cache>>

\* the data file is replaced, removed or truncated while the app runs, and
\* the next pass starts; the script reads the file only in load_data, so a
\* change at any moment between two calls of load_data is seen as a change
\* just before the later one
WriteFile ==
    /\ pc \in Ended
    /\ \E f \in RewrittenFiles :
        /\ f # file
        /\ file' = f
    /\ pc' = "load_data"
    /\ PassVarsReset
    /\ UNCHANGED cache

Next ==
    \/ LoadData
    \/ Sidebar
    \/ EmptyGuard
    \/ Kpi
    \/ Hourly
    \/ Weekday
    \/ Base
    \/ Rerun

\* render passes over a data file that stays as it is
Spec == Init /\ [][Next]_vars

InitFile == file \in RewrittenFiles /\ InitPass

NextFile == Next \/ WriteFile

\* render passes while the data file is rewritten between them
SpecFile == InitFile /\ [][NextFile]_vars

-----------------------------------------------------------------------------
(* Helpers of the properties.                                               *)

\* the pass has got past load_data with a table
Loaded == "load_data" \in executed /\ pc \notin {"load_data"} /\ DATE_COL # None

\* the sidebar block has produced a filtered view
Filtered == "sidebar" \in executed /\ hour_range # <<>>

\* the k-th smallest element of a set of positions
Kth(P, k) == CHOOSE i \in P : Cardinality({j \in P : j <= i}) = k

\* seq is exactly the rows of `rows` at the positions P, in their order
IsSubsequenceAt(seq, rows, P) ==
    /\ Len(seq) = Cardinality(P)
    /\ \A k \in 1..Len(seq) : seq[k] = rows[Kth(P, k)]

-----------------------------------------------------------------------------
(* C1: the filtered view is exactly the rows of the normalized table with   *)
(* start <= date <= end and h_min <= hour <= h_max, both ends inclusive, in *)
(* the order of the normalized table, nothing added and nothing repeated.   *)
C1_FilterExact ==
    Filtered =>
        IsSubsequenceAt(filtered, df.rows,
            {i \in DOMAIN df.rows :
                /\ date_range[1] <= df.rows[i]["date"]
                /\ df.rows[i]["date"] <= date_range[2]
                /\ hour_range[1] <= df.rows[i]["hour"]
                /\ df.rows[i]["hour"] <= hour_range[2]})

\* a two-row table whose first row is filtered out and whose second row sits
\* on all four bounds at once
C1_Witness ==
    /\ Filtered
    /\ Len(df.rows) = 2
    /\ Len(filtered) = 1
    /\ filtered[1] = df.rows[2]
    /\ df.rows[1] # df.rows[2]
    /\ date_range = <<df.rows[2]["date"], df.rows[2]["date"]>>
    /\ hour_range = <<df.rows[2]["hour"], df.rows[2]["hour"]>>

-----------------------------------------------------------------------------
(* C2: load_data takes the first name of Date/Time, DateTime, Pickup_date,  *)
(* Pickup_Date that is a column of the raw table, also when DATE and TIME   *)
(* are present; with none of them and both DATE and TIME present it builds  *)
(* the timestamps from DATE + " " + TIME; otherwise it reports the columns  *)
(* it found and halts without returning a table.                            *)

IsTimestamp(c) == c.kind = "ts"

\* the timestamps of the returned table, in row order
ReturnedTimestamps == [i \in DOMAIN df.rows |-> df.rows[i][DATE_COL]]

\* the values of column c of the raw table that parse, parsed, in row order
ParsedColumn(c) ==
    SelectSeq([i \in DOMAIN file.rows |-> to_datetime(file.rows[i][c])], IsTimestamp)

\* the same for the texts DATE + " " + TIME
ParsedDateTime ==
    SelectSeq([i \in DOMAIN file.rows |->
                  to_datetime(Str(astype_str(file.rows[i]["DATE"]).v
                                  \o astype_str(file.rows[i]["TIME"]).v))],
              IsTimestamp)

C2_TimestampResolution ==
    ("load_data" \in executed /\ file.kind = "table") =>
        LET cols == file.columns
            present == {i \in DOMAIN DATETIME_CANDIDATES : DATETIME_CANDIDATES[i] \in cols}
        IN  IF present # {}
            THEN /\ \A i \in present :
                        (\A j \in present : i <= j) =>
                            /\ DATE_COL = DATETIME_CANDIDATES[i]
                            /\ ReturnedTimestamps = ParsedColumn(DATETIME_CANDIDATES[i])
                 /\ ~(pc \in Ended /\ executed = {"load_data"})
            ELSE IF "DATE" \in cols /\ "TIME" \in cols
            THEN /\ DATE_COL = "DateTime"
                 /\ ReturnedTimestamps = ParsedDateTime
            ELSE /\ pc = "stopped"
                 /\ executed = {"load_data"}
                 /\ msgs = <<Message("error", "no_datetime_column", cols)>>
                 /\ df = NoFrame
                 /\ DATE_COL = None
                 /\ cache = <<>>

\* DateTime is taken although Pickup_date, DATE and TIME are there as well
C2_Witness ==
    /\ Loaded
    /\ {"DateTime", "Pickup_date", "DATE", "TIME"} \subseteq file.columns
    /\ "Date/Time" \notin file.columns
    /\ DATE_COL = "DateTime"
    /\ ReturnedTimestamps = <<Timestamp(2, 3)>>

-----------------------------------------------------------------------------
(* C3: every row of a table load_data returns has a timestamp, a date, an   *)
(* hour in 0..23 and a weekday among Monday..Sunday, all three derived from *)
(* the timestamp; the rows of the returned table are exactly the raw rows   *)
(* whose timestamp value parses, in their order.                            *)

\* the weekday of a day of January 2015, counted from Thursday the 1st
JanuaryWeekday(d) ==
    CASE d % 7 = 1 -> "Thursday"
      [] d % 7 = 2 -> "Friday"
      [] d % 7 = 3 -> "Saturday"
      [] d % 7 = 4 -> "Sunday"
      [] d % 7 = 5 -> "Monday"
      [] d % 7 = 6 -> "Tuesday"
      [] OTHER     -> "Wednesday"

\* the timestamp text of raw row i, as load_data reads it
RawTimestamp(i) ==
    IF DATE_COL \in file.columns
    THEN file.rows[i][DATE_COL]
    ELSE Str(astype_str(file.rows[i]["DATE"]).v \o astype_str(file.rows[i]["TIME"]).v)

\* the name a raw column has in the returned table
ReturnedName(c) ==
    IF c = "Base Number" /\ "Base" \notin file.columns THEN "Base" ELSE c

C3_RowsNormalized ==
    Loaded =>
        LET parses == {i \in DOMAIN file.rows : to_datetime(RawTimestamp(i)) # NaT}
        IN  /\ \A k \in DOMAIN df.rows :
                LET r == df.rows[k]
                IN  /\ {DATE_COL, "date", "hour", "weekday"} \subseteq DOMAIN r
                    /\ r[DATE_COL].kind = "ts"
                    /\ r["date"] = r[DATE_COL].v[1]
                    /\ r["date"] \in DaysInMonth
                    /\ r["hour"] = r[DATE_COL].v[2]
                    /\ r["hour"] \in 0..23
                    /\ r["weekday"] = JanuaryWeekday(r["date"])
                    /\ \E n \in DOMAIN weekday_order : r["weekday"] = weekday_order[n]
            /\ Len(df.rows) = Cardinality(parses)
            /\ \A k \in DOMAIN df.rows :
                /\ df.rows[k][DATE_COL] = to_datetime(RawTimestamp(Kth(parses, k)))
                /\ \A c \in file.columns \ {DATE_COL} :
                       df.rows[k][ReturnedName(c)] = file.rows[Kth(parses, k)][c]

\* a raw table whose first row does not parse and whose second row does and
\* has no base
C3_Witness ==
    /\ Loaded
    /\ Len(file.rows) = 2
    /\ to_datetime(file.rows[1]["Date/Time"]) = NaT
    /\ isna(file.rows[2]["Base"])
    /\ Len(df.rows) = 1
    /\ df.rows[1]["hour"] = 17
    /\ df.rows[1]["weekday"] = "Saturday"

-----------------------------------------------------------------------------
(* C4: in any render pass, when the data file is missing, has zero bytes or *)
(* has no usable timestamp column, the pass halts inside load_data after    *)
(* reporting the error, and no later section of the script runs.            *)

\* the file is one load_data reports as unusable
FatalInput ==
    \/ file.kind \in {"missing", "zero_bytes"}
    \/ /\ file.kind = "table"
       /\ \A i \in DOMAIN DATETIME_CANDIDATES : DATETIME_CANDIDATES[i] \notin file.columns
       /\ ~({"DATE", "TIME"} \subseteq file.columns)

\* the pass ended in load_data with one st.error and nothing else run
HaltedInLoad ==
    /\ pc = "stopped"
    /\ executed = {"load_data"}
    /\ Len(msgs) = 1
    /\ msgs[1].level = "error"

C4_FatalInputHaltsInLoad ==
    ("load_data" \in executed /\ FatalInput) => HaltedInLoad

-----------------------------------------------------------------------------
(* C5: when the input table has zero rows (a file holding only a header     *)
(* line), normalization signals a fatal error and the pass halts as it does *)
(* for a missing or zero-byte file.                                         *)
C5_ZeroRowsHaltsInLoad ==
    ("load_data" \in executed /\ file.kind = "table" /\ file.rows = <<>>)
        => HaltedInLoad

-----------------------------------------------------------------------------
(* C6: a pass whose filtered view is empty ends right after the filter step *)
(* in the "no matching data" state: a warning, no error, and none of the    *)
(* KPI, hourly, weekday and base sections run.                              *)
C6_EmptyViewStopsPass ==
    /\ ("guard" \in executed /\ Len(filtered) = 0) =>
           /\ pc = "stopped"
           /\ executed = {"load_data", "sidebar", "guard"}
           /\ msgs = <<Message("warning", "no_trips_match", {})>>
           /\ kpi = NoKpi
           /\ hour_counts = <<>> /\ hour_insight = NoHourInsight
           /\ weekday_counts = <<>> /\ weekday_insight = NoWeekdayInsight
           /\ base_counts = <<>> /\ base_insight = NoBaseInsight
    /\ (executed \cap Sections # {}) => Len(filtered) > 0

\* a table with rows, all of them filtered out
C6_Witness ==
    /\ "guard" \in executed
    /\ Len(df.rows) = 2
    /\ Len(filtered) = 0
    /\ pc = "stopped"

-----------------------------------------------------------------------------
(* C7, as the code has it: the hourly aggregate has exactly the hours that  *)
(* occur in the filtered view as keys, in ascending order, each with the    *)
(* number of rows of the view at that hour (at least 1); an hour with no    *)
(* matching row is absent.                                                  *)

\* the number of rows of the filtered view at hour h
TripsAtHour(h) == Cardinality({i \in DOMAIN filtered : filtered[i]["hour"] = h})

-----------------------------------------------------------------------------
(* C8: for a non-empty filtered view the hourly counts sum to the number of *)
(* rows, the weekday counts over Monday..Sunday (an absent day counting 0)  *)
(* sum to the number of rows, and the base counts sum to the number of rows *)
(* that have a base value.                                                  *)

RECURSIVE SumOf(_)
\* the sum of a sequence of numbers
SumOf(seq) == IF seq = <<>> THEN 0 ELSE Head(seq) + SumOf(Tail(seq))

C8_CountsSumToRows ==
    /\ "hourly" \in executed =>
           SumOf([k \in DOMAIN hour_counts |-> hour_counts[k].trips]) = Len(filtered)
    /\ "weekday" \in executed =>
           /\ [k \in DOMAIN weekday_counts |-> weekday_counts[k].weekday] = weekday_order
           /\ SumOf([k \in DOMAIN weekday_counts |->
                        IF weekday_counts[k].isna THEN 0 ELSE weekday_counts[k].trips])
                  = Len(filtered)
    /\ ("base" \in executed /\ "Base" \in df.columns) =>
           SumOf([k \in DOMAIN base_counts |-> base_counts[k].trips])
               = Cardinality({i \in DOMAIN filtered : filtered[i]["Base"].kind = "str"})

\* two trips at the same hour of the same day, one of them without a base
C8_Witness ==
    /\ pc = "done"
    /\ "base" \in executed
    /\ Len(filtered) = 2
    /\ Len(hour_counts) = 1
    /\ Len(base_counts) = 1
    /\ base_counts[1].trips = 1
    /\ \E k \in DOMAIN weekday_counts : weekday_counts[k].isna

-----------------------------------------------------------------------------
(* C9, as the code has it: the peak hour is the hour with the largest count *)
(* and the off-peak hour the hour with the smallest count among the hours   *)
(* that occur in the filtered view, ties going to the lowest hour; for      *)
(* trips at hours 8,8,8,17,17,3 the peak is hour 8 with 3 trips and the     *)
(* off-peak hour is 3 with 1 trip.                                          *)

PresentHours == {h \in 0..23 : TripsAtHour(h) > 0}

\* h is the lowest hour of H with the largest / smallest count
IsPeakOver(h, H) ==
    /\ h \in H
    /\ \A g \in H : TripsAtHour(g) <= TripsAtHour(h)
    /\ \A g \in H : TripsAtHour(g) = TripsAtHour(h) => h <= g
IsOffPeakOver(h, H) ==
    /\ h \in H
    /\ \A g \in H : TripsAtHour(g) >= TripsAtHour(h)
    /\ \A g \in H : TripsAtHour(g) = TripsAtHour(h) => h <= g

HoursOfView == [i \in DOMAIN filtered |-> filtered[i]["hour"]]

-----------------------------------------------------------------------------
(* C10: across render passes and changes of the file's content, a render    *)
(* after the content changed uses a table built from the new content (and a *)
(* render with unchanged content reuses the table already built).           *)
C10_TableBuiltFromCurrentContent ==
    ("load_data" \in executed /\ load_data(file).status = "return") =>
        /\ df = load_data(file).df
        /\ DATE_COL = load_data(file).date_col
-----------------------------------------------------------------------------
(* C11: when the date control delivers a single date d instead of a pair    *)
(* (only the first date of the range is picked), the filter step takes      *)
(* start = end = d and produces exactly the rows dated d within the hour    *)
(* bounds, without raising an error.                                        *)
C11_SingleDateFiltersOneDay ==
    ("sidebar" \in executed /\ Len(date_range) = 1) =>
        /\ pc # "exception"
        /\ Filtered
        /\ IsSubsequenceAt(filtered, df.rows,
               {i \in DOMAIN df.rows :
                   /\ df.rows[i]["date"] = date_range[1]
                   /\ hour_range[1] <= df.rows[i]["hour"]
                   /\ df.rows[i]["hour"] <= hour_range[2]})
-----------------------------------------------------------------------------
\* the rows of the filtered view that fall on one of `days`
RowsOnDays(days) ==
    Cardinality({i \in DOMAIN filtered : filtered[i]["weekday"] \in days})

\* the days of `days` on which the filtered view has at least one row
DaysInView(days) ==
    {d \in days : \E i \in DOMAIN filtered : filtered[i]["weekday"] = d}

\* the mean of the per-day counts over the days of `days` that occur in the
\* view, as sum over n
MeanOverDaysInView(days) ==
    [sum |-> RowsOnDays(days), n |-> Cardinality(DaysInView(days))]

\* the view has exactly one row on each of the seven days
OneRowEachDay == \A d \in Weekdays \cup Weekend : RowsOnDays({d}) = 1

(* C12: the weekday average is the mean of the counts of the Monday..Friday *)
(* keys that occur in the filtered view and the weekend average the mean of *)
(* the counts of the Saturday/Sunday keys that occur in it, absent days     *)
(* being left out rather than counted as 0; for a view with exactly one row *)
(* on each of the seven days both averages are 1.                           *)
C12_AveragesOverDaysInView ==
    "weekday" \in executed =>
        /\ weekday_insight.weekday_avg = MeanOverDaysInView(Weekdays)
        /\ weekday_insight.weekend_avg = MeanOverDaysInView(Weekend)
        /\ OneRowEachDay =>
               /\ weekday_insight.weekday_avg.n > 0
               /\ weekday_insight.weekday_avg.sum = weekday_insight.weekday_avg.n
               /\ weekday_insight.weekend_avg.n > 0
               /\ weekday_insight.weekend_avg.sum = weekday_insight.weekend_avg.n

\* the seven-row week, one trip a day, seen whole: five weekday keys and two
\* weekend keys, each with count 1
C12_Witness ==
    /\ "weekday" \in executed
    /\ OneRowEachDay
    /\ Len(filtered) = 7
    /\ weekday_insight.weekday_avg = [sum |-> 5, n |-> 5]
    /\ weekday_insight.weekend_avg = [sum |-> 2, n |-> 2]
-----------------------------------------------------------------------------
(* C13: in a render pass with a non-empty filtered view whose table has a   *)
(* Base column, the base insight step completes and reports a top base      *)
(* whose share of the counted trips is in (0, 1], also when no row of the   *)
(* view has a base value.                                                   *)
C13_BaseInsightCompletes ==
    ("base" \in executed /\ "Base" \in df.columns) =>
        /\ pc = "done"
        /\ 0 < base_insight.top_base_trips
        /\ base_insight.top_base_trips <= base_insight.total_trips
-----------------------------------------------------------------------------
(* C14: for every non-empty filtered view both the weekday average and the  *)
(* weekend average of the weekday insight are defined numbers, also when    *)
(* the view has no Saturday or Sunday row, or no Monday..Friday row: neither *)
(* is the mean of an empty selection.                                       *)
C14_AveragesAreDefined ==
    "weekday" \in executed =>
        /\ weekday_insight.weekday_avg.n > 0
        /\ weekday_insight.weekend_avg.n > 0

=============================================================================
